---- MODULE Spec2Model ----
(***************************************************************************)
(* Booking engine of easy-study (backend/app/routes/bookings.py with the   *)
(* payment ledger of backend/app/services/payment_service.py and the two   *)
(* calendar adapters).  Every request handler is a process that runs from  *)
(* one database or provider call to the next; the database collections,    *)
(* the provider's calendar and the notification collection are shared.     *)
(***************************************************************************)
EXTENDS Integers, Sequences, FiniteSets, TLC

\* ------------------------------------------------------------------ bounds
MaxBookings == 3      \* documents the bookings collection may hold
MaxArtifacts == 2     \* calendar events the provider will create
MaxRequests == 4      \* requests served in one behaviour
MaxCapacity == 2      \* largest group_session_capacity a tutor configures

\* ------------------------------------------------------------- principals
Procs == {1, 2}
Students == {"s1", "s2"}
TutorUsers == {"t1", "t2"}
Users == Students \cup TutorUsers
TutorIds == {"T1"}
SessionTypes == {"private", "group"}
Times == {1, 2}
OfferedTimes == {1}       \* the start time students ask for; update_booking moves to any
Durations == {60}
BookingIds == 1..MaxBookings

\* TutorProfile.find_one(TutorProfile.user_id == str(current_user.id))
ProfileOf(u) == IF u = "t1" THEN "T1" ELSE IF u = "t2" THEN "T2" ELSE "none"

\* User.email is a required EmailStr
Email(u) == u

PENDING == "pending"
CONFIRMED == "confirmed"
COMPLETED == "completed"
CANCELLED == "cancelled"
BookingStatus == {PENDING, CONFIRMED, COMPLETED, CANCELLED}

VARIABLES
    bookings,               \* collection "bookings", in insertion order
    payments,               \* collection "payments"
    relations,              \* collection "student_tutor_relations"
    artifacts,              \* events on the provider's calendar
    notifications,          \* collection "notifications", counted per type and related_id
    group_session_capacity, \* TutorAvailability.group_session_capacity of each tutor
    req,                    \* the request each worker is serving, with its locals
    nreq,                   \* requests accepted so far
    fees,                   \* one price and fee computation: inputs, position, results
    offers,                 \* TutorProfile.offers_private / offers_group of each tutor
    availability,           \* the TutorAvailability document of tutor T1
    sreq,                   \* the availability request each worker is serving
    blocked_dates,          \* collection "blocked_dates" of tutor T1, in insertion order
    withdrawals,            \* collection "withdrawals" of tutor T1, in insertion order
    wreq,                   \* the ledger or withdrawal request each worker is serving
    reply                   \* the last answer of a calendar or statistics route

\* the state of the booking routes
booking_vars == <<bookings, payments, relations, artifacts, notifications,
                  group_session_capacity, req, nreq>>

\* the state the booking routes never touch
\* the state of the withdrawal and statistics routes
ledger_vars == <<withdrawals, wreq, reply>>

aux == <<fees, offers, availability, sreq, blocked_dates, withdrawals, wreq, reply>>

vars == <<bookings, payments, relations, artifacts, notifications,
          group_session_capacity, req, nreq, fees, offers, availability, sreq,
          blocked_dates, withdrawals, wreq, reply>>

NoBooking ==
    [student_id |-> "none", tutor_id |-> "none", session_type |-> "none",
     scheduled_at |-> 0, duration_minutes |-> 0, status |-> "none",
     google_event_id |-> 0, meeting_link |-> 0]

NoPayment ==
    [student_id |-> "none", tutor_id |-> "none", is_first_booking |-> FALSE,
     status |-> "none"]

Idle ==
    [op |-> "none", pc |-> "idle", user |-> "none", bid |-> 0, bk |-> NoBooking,
     first |-> FALSE, rel |-> 0, rel_total |-> 0]

\* no price or fee computation under way
NoFees == [pc |-> "none"]

\* no TutorAvailability document of the tutor is stored
NoDocument == [stored |-> FALSE]

\* a worker serving no availability request; status is its last answer
SIdle(status) == [pc |-> "idle", status |-> status]

\* no answer of a calendar or statistics route yet
NoReply == [route |-> "none"]

\* a worker serving no ledger or withdrawal request
WIdle == [pc |-> "idle"]

\* the availability, withdrawal and statistics routes are not used
NoAvailabilityRequests ==
    /\ availability = NoDocument
    /\ sreq = [p \in Procs |-> SIdle("none")]
    /\ blocked_dates = <<>>
    /\ withdrawals = <<>>
    /\ wreq = [p \in Procs |-> WIdle]
    /\ reply = NoReply


\* a worker takes its next request once the previous response is out
Free(p) == req[p].pc = "idle"

\* ----------------------------------------------------------------- queries
Min(S) == CHOOSE x \in S : \A y \in S : x <= y

\* the lookup of create_booking without its status filter
ExistingBooking_AnyStatus(u, T, k, t, d) ==
    {i \in 1..Len(bookings) :
        /\ bookings[i].student_id = u
        /\ bookings[i].tutor_id = T
        /\ bookings[i].session_type = k
        /\ bookings[i].scheduled_at = t
        /\ bookings[i].duration_minutes = d}

\* Booking.find_one(...) of create_booking: the student's own active booking
ExistingBooking(u, T, k, t, d) ==
    {i \in 1..Len(bookings) :
        /\ bookings[i].student_id = u
        /\ bookings[i].tutor_id = T
        /\ bookings[i].session_type = k
        /\ bookings[i].scheduled_at = t
        /\ bookings[i].duration_minutes = d
        /\ bookings[i].status # CANCELLED}

\* StudentTutorRelation.find_one(student_id, tutor_id): the rows of the pair,
\* each row kept as its total_bookings
RelationRows(u, T) == 1..Len(relations[u, T])

is_first_booking(u, T) == RelationRows(u, T) = {}

\* Payment.find_one(Payment.booking_id == booking_id)
get_payment_by_booking(b) ==
    IF payments[b] = NoPayment THEN {} ELSE {b}

\* Booking.find_one(...) of confirm_booking: a confirmed group booking of the
\* same tutor and timeslot that already carries an event id
ExistingGroupBooking(b, bk) ==
    {i \in 1..Len(bookings) :
        /\ i # b
        /\ bookings[i].tutor_id = bk.tutor_id
        /\ bookings[i].session_type = "group"
        /\ bookings[i].scheduled_at = bk.scheduled_at
        /\ bookings[i].duration_minutes = bk.duration_minutes
        /\ bookings[i].status = CONFIRMED
        /\ bookings[i].google_event_id # 0}

\* NotificationService.create_notification: one more document of this type
Notify(kind, b, sent) ==
    IF sent
    THEN [notifications EXCEPT ![kind][b] = @ + 1]
    ELSE notifications

\* -------------------------------------------------------------------- init
InitBookings ==
    /\ bookings = <<>>
    /\ payments = [b \in BookingIds |-> NoPayment]
    /\ relations = [u \in Students, T \in TutorIds |-> <<>>]
    /\ artifacts = <<>>
    /\ notifications = [kind \in {"created", "confirmed", "cancelled"} |->
                            [b \in BookingIds |-> 0]]
    /\ group_session_capacity \in [TutorIds -> 1..MaxCapacity]
    /\ req = [p \in Procs |-> Idle]
    /\ nreq = 0

\* every tutor takes both kinds of session
OffersAll == [T \in TutorIds |-> [k \in SessionTypes |-> TRUE]]

Init ==
    /\ InitBookings
    /\ fees = NoFees
    /\ offers = OffersAll
    /\ NoAvailabilityRequests

\* ---------------------------------------------------------- create_booking
\* lines 53-74: the error create_booking answers with, "no" when it goes on
CreateRejection(u, T, k, t, d) ==
    IF T \notin TutorIds THEN "TutorNotFound"
    ELSE IF Email(u) = "" THEN "EmailRequired"
    ELSE IF ExistingBooking(u, T, k, t, d) # {} THEN "AlreadyBooked"
    ELSE "no"

\* lines 53-106: the checks, then the Booking object that line 107 inserts;
\* a rejected request changes nothing
CreateBooking(p, u, T, k, t, d) ==
    /\ Free(p)
    /\ nreq < MaxRequests
    /\ Len(bookings) + Cardinality({q \in Procs : req[q].pc = "c_insert"}) < MaxBookings
    /\ IF CreateRejection(u, T, k, t, d) # "no"
       THEN UNCHANGED <<req, nreq>>
       ELSE /\ nreq' = nreq + 1
            /\ req' = [req EXCEPT ![p] =
                    [Idle EXCEPT !.op = "create", !.pc = "c_insert", !.user = u,
                        !.bk = [student_id |-> u, tutor_id |-> T, session_type |-> k,
                                scheduled_at |-> t, duration_minutes |-> d,
                                status |-> PENDING,
                                google_event_id |-> 0, meeting_link |-> 0]]]
    /\ UNCHANGED <<bookings, payments, relations, artifacts, notifications,
                   group_session_capacity>>
    /\ UNCHANGED aux

\* line 107: booking.insert()
CreateInsert(p) ==
    /\ req[p].pc = "c_insert"
    /\ bookings' = Append(bookings, req[p].bk)
    /\ req' = [req EXCEPT ![p].pc = "c_payment", ![p].bid = Len(bookings) + 1]
    /\ UNCHANGED <<payments, relations, artifacts, notifications,
                   group_session_capacity, nreq>>
    /\ UNCHANGED aux

\* lines 110-119 with create_payment up to payment.insert(); an exception of
\* the ledger is logged and the handler goes on to the notification
CreatePayment(p, ok, sent) ==
    /\ req[p].pc = "c_payment"
    /\ LET r == req[p]
           first == is_first_booking(r.bk.student_id, r.bk.tutor_id)
       IN  IF ok
           THEN /\ payments' = [payments EXCEPT ![r.bid] =
                        [student_id |-> r.bk.student_id,
                         tutor_id |-> r.bk.tutor_id, is_first_booking |-> first,
                         status |-> PENDING]]
                /\ req' = [req EXCEPT ![p].pc = "c_relation", ![p].first = first]
                /\ UNCHANGED notifications
           ELSE /\ notifications' = Notify("created", r.bid, sent)
                /\ req' = [req EXCEPT ![p] = Idle]
                /\ UNCHANGED payments
    /\ UNCHANGED <<bookings, relations, artifacts, group_session_capacity, nreq>>
    /\ UNCHANGED aux

\* create_payment lines 91-107: insert the relation of a first booking, or
\* read the existing one
CreateRelation(p, sent) ==
    /\ req[p].pc = "c_relation"
    /\ LET r == req[p]
           rows == RelationRows(r.bk.student_id, r.bk.tutor_id)
       IN  IF r.first
           THEN /\ relations' = [relations EXCEPT
                        ![r.bk.student_id, r.bk.tutor_id] = Append(@, 1)]
                /\ notifications' = Notify("created", r.bid, sent)
                /\ req' = [req EXCEPT ![p] = Idle]
           ELSE IF rows = {}
           THEN /\ notifications' = Notify("created", r.bid, sent)
                /\ req' = [req EXCEPT ![p] = Idle]
                /\ UNCHANGED relations
           ELSE /\ req' = [req EXCEPT ![p].pc = "c_relsave",
                                      ![p].rel = Min(rows),
                                      ![p].rel_total =
                                          relations[r.bk.student_id, r.bk.tutor_id][Min(rows)]]
                /\ UNCHANGED <<relations, notifications>>
    /\ UNCHANGED <<bookings, payments, artifacts, group_session_capacity, nreq>>
    /\ UNCHANGED aux

\* create_payment lines 108-112: relation.save() of the incremented copy,
\* then the notification of lines 122-132
CreateRelationSave(p, sent) ==
    /\ req[p].pc = "c_relsave"
    /\ LET r == req[p]
       IN  /\ relations' = [relations EXCEPT
                    ![r.bk.student_id, r.bk.tutor_id][r.rel] = r.rel_total + 1]
           /\ notifications' = Notify("created", r.bid, sent)
           /\ req' = [req EXCEPT ![p] = Idle]
    /\ UNCHANGED <<bookings, payments, artifacts, group_session_capacity, nreq>>
    /\ UNCHANGED aux

\* ---------------------------------------------------------- update_booking
\* lines 162-167: the error update_booking answers with
UpdateRejection(u, b) ==
    IF b > Len(bookings) THEN "NotFound"
    ELSE IF bookings[b].student_id # u /\ bookings[b].tutor_id # u THEN "NotAuthorized"
    ELSE "no"

\* lines 162-172: load the booking and set every field the request carries
UpdateBooking(p, u, b, st, at) ==
    /\ Free(p)
    /\ nreq < MaxRequests
    /\ IF UpdateRejection(u, b) # "no"
       THEN UNCHANGED <<req, nreq>>
       ELSE /\ nreq' = nreq + 1
            /\ req' = [req EXCEPT ![p] =
                    [Idle EXCEPT !.op = "update", !.pc = "up_save", !.user = u, !.bid = b,
                        !.bk = [bookings[b] EXCEPT
                                    !.status = IF st = "unset" THEN @ ELSE st,
                                    !.scheduled_at = IF at = 0 THEN @ ELSE at]]]
    /\ UNCHANGED <<bookings, payments, relations, artifacts, notifications,
                   group_session_capacity>>
    /\ UNCHANGED aux

\* line 174: booking.save()
UpdateSave(p) ==
    /\ req[p].pc = "up_save"
    /\ bookings' = [bookings EXCEPT ![req[p].bid] = req[p].bk]
    /\ req' = [req EXCEPT ![p] = Idle]
    /\ UNCHANGED <<payments, relations, artifacts, notifications,
                   group_session_capacity, nreq>>
    /\ UNCHANGED aux

\* --------------------------------------------------------- confirm_booking
\* confirm_booking without the check of lines 197-198
ConfirmRejection_NoStatusCheck(u, b) ==
    IF b > Len(bookings) THEN "NotFound"
    ELSE IF ProfileOf(u) = "none" \/ ProfileOf(u) # bookings[b].tutor_id THEN "OnlyTutor"
    ELSE IF Email(bookings[b].student_id) = "" THEN "EmailRequired"
    ELSE "no"

\* lines 188-205: the error confirm_booking answers with
ConfirmRejection(u, b) ==
    IF b > Len(bookings) THEN "NotFound"
    ELSE IF ProfileOf(u) = "none" \/ ProfileOf(u) # bookings[b].tutor_id THEN "OnlyTutor"
    ELSE IF bookings[b].status = CONFIRMED THEN "AlreadyConfirmed"
    ELSE IF Email(bookings[b].student_id) = "" THEN "EmailRequired"
    ELSE "no"

\* lines 188-205: load the booking, check the caller, the status and the email
ConfirmBooking(p, u, b) ==
    /\ Free(p)
    /\ nreq < MaxRequests
    /\ IF ConfirmRejection(u, b) # "no"
       THEN UNCHANGED <<req, nreq>>
       ELSE /\ nreq' = nreq + 1
            /\ req' = [req EXCEPT ![p] =
                    [Idle EXCEPT !.op = "confirm", !.pc = "cf_provision", !.user = u,
                                 !.bid = b, !.bk = bookings[b]]]
    /\ UNCHANGED <<bookings, payments, relations, artifacts, notifications,
                   group_session_capacity>>
    /\ UNCHANGED aux

\* lines 207-261: reuse the event of a confirmed booking of the same group
\* slot or create one, with the legacy service as fallback.  tutor_ok and
\* global_ok are the outcomes of the tutor's calendar and of the legacy one.
ConfirmProvision(p, tutor_ok, global_ok) ==
    /\ req[p].pc = "cf_provision"
    /\ LET r == req[p]
           bk == r.bk
           found == IF bk.session_type = "group"
                    THEN ExistingGroupBooking(r.bid, bk) ELSE {}
           existing == IF found = {} THEN NoBooking ELSE bookings[Min(found)]
           eid == existing.google_event_id
           room == Len(artifacts) < MaxArtifacts
           added == eid # 0 /\ tutor_ok /\ ~artifacts[eid].deleted
           arts1 == IF added
                    THEN [artifacts EXCEPT ![eid].attendees = @ \cup {bk.student_id}]
                    ELSE artifacts
           ev1 == IF eid # 0 THEN eid ELSE bk.google_event_id
           link1 == IF eid = 0 THEN bk.meeting_link
                    ELSE IF existing.meeting_link # 0 THEN existing.meeting_link
                    ELSE IF added THEN eid ELSE 0
           created == eid = 0 /\ tutor_ok /\ room
           pending == (eid # 0 /\ ~added) \/ (eid = 0 /\ ~created)
           fallback_created == pending /\ global_ok /\ room
           new == Len(artifacts) + 1
           res_event == IF created \/ fallback_created THEN new
                        ELSE IF added THEN eid ELSE 0
       IN  /\ artifacts' =
                IF created \/ fallback_created
                THEN Append(arts1, [start_time |-> bk.scheduled_at,
                                    session_type |-> bk.session_type,
                                    booking_id |-> r.bid,
                                    attendees |-> {bk.student_id},
                                    deleted |-> FALSE])
                ELSE arts1
           /\ req' = [req EXCEPT ![p].pc = "cf_save",
                        ![p].bk = [bk EXCEPT
                            !.status = CONFIRMED,
                            !.meeting_link = IF link1 # 0 THEN link1 ELSE res_event,
                            !.google_event_id = IF ev1 # 0 THEN ev1 ELSE res_event]]
    /\ UNCHANGED <<bookings, payments, relations, notifications,
                   group_session_capacity, nreq>>
    /\ UNCHANGED aux

\* line 263: booking.save() writes the handler's copy of the document
ConfirmSave(p) ==
    /\ req[p].pc = "cf_save"
    /\ bookings' = [bookings EXCEPT ![req[p].bid] = req[p].bk]
    /\ req' = [req EXCEPT ![p].pc = "cf_finalize"]
    /\ UNCHANGED <<payments, relations, artifacts, notifications,
                   group_session_capacity, nreq>>
    /\ UNCHANGED aux

\* PaymentService.complete_payment
complete_payment(b) ==
    IF get_payment_by_booking(b) = {} THEN payments
    ELSE [payments EXCEPT ![b].status = COMPLETED]

\* lines 265-287: complete the payment of the booking, notify the student
ConfirmFinalize(p, sent) ==
    /\ req[p].pc = "cf_finalize"
    /\ payments' = complete_payment(req[p].bid)
    /\ notifications' = Notify("confirmed", req[p].bid, sent)
    /\ req' = [req EXCEPT ![p] = Idle]
    /\ UNCHANGED <<bookings, relations, artifacts, group_session_capacity, nreq>>
    /\ UNCHANGED aux

\* ---------------------------------------------------------- cancel_booking
\* lines 327-340: the error cancel_booking answers with
CancelRejection(u, b) ==
    IF b > Len(bookings) THEN "NotFound"
    ELSE IF bookings[b].student_id # u /\ bookings[b].tutor_id # ProfileOf(u)
         THEN "NotAuthorized"
    ELSE IF bookings[b].status = CANCELLED THEN "AlreadyCancelled"
    ELSE "no"

\* a cancel_booking that marks the ledger entry of the booking refunded
CancelBooking_Refunding(p, u, b) ==
    /\ Free(p)
    /\ nreq < MaxRequests
    /\ IF CancelRejection(u, b) # "no"
       THEN UNCHANGED <<req, nreq, payments>>
       ELSE /\ nreq' = nreq + 1
            /\ req' = [req EXCEPT ![p] =
                    [Idle EXCEPT !.op = "cancel", !.pc = "ca_save", !.user = u,
                                 !.bid = b, !.bk = bookings[b]]]
            /\ payments' = IF get_payment_by_booking(b) = {} THEN payments
                           ELSE [payments EXCEPT ![b].status = "refunded"]
    /\ UNCHANGED <<bookings, relations, artifacts, notifications,
                   group_session_capacity>>
    /\ UNCHANGED aux

\* lines 327-340: load the booking, check the caller and the status
CancelBooking(p, u, b) ==
    /\ Free(p)
    /\ nreq < MaxRequests
    /\ IF CancelRejection(u, b) # "no"
       THEN UNCHANGED <<req, nreq>>
       ELSE /\ nreq' = nreq + 1
            /\ req' = [req EXCEPT ![p] =
                    [Idle EXCEPT !.op = "cancel", !.pc = "ca_save", !.user = u,
                                 !.bid = b, !.bk = bookings[b]]]
    /\ UNCHANGED <<bookings, payments, relations, artifacts, notifications,
                   group_session_capacity>>
    /\ UNCHANGED aux

\* GoogleMeetService.cancel_event: the event is deleted when the legacy
\* service reaches it
cancel_event(event_id, deleted) ==
    IF event_id # 0 /\ deleted
    THEN [artifacts EXCEPT ![event_id].deleted = TRUE]
    ELSE artifacts

\* cancel_booking giving up when the calendar event cannot be deleted
CancelSave_DeletionRequired(p, deleted, sent) ==
    /\ req[p].pc = "ca_save"
    /\ LET blocked == req[p].bk.google_event_id # 0 /\ ~deleted IN
       /\ artifacts' = cancel_event(req[p].bk.google_event_id, deleted)
       /\ bookings' = IF blocked THEN bookings
                      ELSE [bookings EXCEPT ![req[p].bid] =
                                [req[p].bk EXCEPT !.status = CANCELLED]]
       /\ notifications' = Notify("cancelled", req[p].bid, sent /\ ~blocked)
    /\ req' = [req EXCEPT ![p] = Idle]
    /\ UNCHANGED <<payments, relations, group_session_capacity, nreq>>
    /\ UNCHANGED aux

\* lines 342-380: delete the event, save the cancelled copy, notify
CancelSave(p, deleted, sent) ==
    /\ req[p].pc = "ca_save"
    /\ artifacts' = cancel_event(req[p].bk.google_event_id, deleted)
    /\ bookings' = [bookings EXCEPT ![req[p].bid] =
                        [req[p].bk EXCEPT !.status = CANCELLED]]
    /\ notifications' = Notify("cancelled", req[p].bid, sent)
    /\ req' = [req EXCEPT ![p] = Idle]
    /\ UNCHANGED <<payments, relations, group_session_capacity, nreq>>
    /\ UNCHANGED aux

\* -------------------------------------------------------------- behaviours
\* the fields one update request carries: a status or a start time
UpdateInputs ==
    {<<st, 0>> : st \in BookingStatus} \cup {<<"unset", t>> : t \in Times}

\* ledger and notification sink answer; the calendars answer or fail
Next ==
    \/ \E p \in Procs, u \in Students, T \in TutorIds, k \in SessionTypes,
          t \in OfferedTimes, d \in Durations : CreateBooking(p, u, T, k, t, d)
    \/ \E p \in Procs : CreateInsert(p)
    \/ \E p \in Procs : CreatePayment(p, TRUE, TRUE)
    \/ \E p \in Procs : CreateRelation(p, TRUE)
    \/ \E p \in Procs : CreateRelationSave(p, TRUE)
    \/ \E p \in Procs, u \in Users, b \in BookingIds, in \in UpdateInputs :
            UpdateBooking(p, u, b, in[1], in[2])
    \/ \E p \in Procs : UpdateSave(p)
    \/ \E p \in Procs, u \in Users, b \in BookingIds : ConfirmBooking(p, u, b)
    \/ \E p \in Procs, tutor_ok \in BOOLEAN, global_ok \in BOOLEAN :
            ConfirmProvision(p, tutor_ok, global_ok)
    \/ \E p \in Procs : ConfirmSave(p)
    \/ \E p \in Procs : ConfirmFinalize(p, TRUE)
    \/ \E p \in Procs, u \in Users, b \in BookingIds : CancelBooking(p, u, b)
    \/ \E p \in Procs, deleted \in BOOLEAN : CancelSave(p, deleted, TRUE)

Spec == Init /\ [][Next]_vars

\* booking creation alone, with a ledger and a notification sink that may fail
NextCreate ==
    \/ \E p \in Procs, u \in Students, T \in TutorIds, k \in SessionTypes,
          t \in OfferedTimes, d \in Durations : CreateBooking(p, u, T, k, t, d)
    \/ \E p \in Procs : CreateInsert(p)
    \/ \E p \in Procs, ok \in BOOLEAN, sent \in BOOLEAN : CreatePayment(p, ok, sent)
    \/ \E p \in Procs, sent \in BOOLEAN : CreateRelation(p, sent)
    \/ \E p \in Procs, sent \in BOOLEAN : CreateRelationSave(p, sent)

SpecCreate == Init /\ [][NextCreate]_vars

\* group sessions: bookings are created and the tutor confirms them one
\* after another
NextGroup ==
    \/ \E p \in Procs, u \in Students, T \in TutorIds,
          t \in OfferedTimes, d \in Durations : CreateBooking(p, u, T, "group", t, d)
    \/ \E p \in Procs : CreateInsert(p)
    \/ \E p \in Procs : CreatePayment(p, TRUE, TRUE)
    \/ \E p \in Procs : CreateRelation(p, TRUE)
    \/ \E p \in Procs : CreateRelationSave(p, TRUE)
    \/ \E p \in Procs, u \in Users, b \in BookingIds :
            /\ \A q \in Procs : req[q].op # "confirm"
            /\ ConfirmBooking(p, u, b)
    \/ \E p \in Procs, tutor_ok \in BOOLEAN, global_ok \in BOOLEAN :
            ConfirmProvision(p, tutor_ok, global_ok)
    \/ \E p \in Procs : ConfirmSave(p)
    \/ \E p \in Procs : ConfirmFinalize(p, TRUE)

SpecGroup == Init /\ [][NextGroup]_vars

\* create and confirm requests, confirmations of one booking free to
\* interleave; no update and no cancel, so a booking is Pending until a
\* confirmation saves it
NextConfirm ==
    \/ \E p \in Procs, u \in Students, T \in TutorIds, k \in SessionTypes,
          t \in OfferedTimes, d \in Durations : CreateBooking(p, u, T, k, t, d)
    \/ \E p \in Procs : CreateInsert(p)
    \/ \E p \in Procs : CreatePayment(p, TRUE, TRUE)
    \/ \E p \in Procs : CreateRelation(p, TRUE)
    \/ \E p \in Procs : CreateRelationSave(p, TRUE)
    \/ \E p \in Procs, u \in Users, b \in BookingIds : ConfirmBooking(p, u, b)
    \/ \E p \in Procs, tutor_ok \in BOOLEAN, global_ok \in BOOLEAN :
          ConfirmProvision(p, tutor_ok, global_ok)
    \/ \E p \in Procs : ConfirmSave(p)
    \/ \E p \in Procs : ConfirmFinalize(p, TRUE)

SpecConfirm == Init /\ [][NextConfirm]_vars

\* create and confirm requests while the tutor's own calendar fails on every
\* call (not connected, no credentials, token refresh or API error)
NextTutorDown ==
    \/ \E p \in Procs, u \in Students, T \in TutorIds, k \in SessionTypes,
          t \in OfferedTimes, d \in Durations : CreateBooking(p, u, T, k, t, d)
    \/ \E p \in Procs : CreateInsert(p)
    \/ \E p \in Procs : CreatePayment(p, TRUE, TRUE)
    \/ \E p \in Procs : CreateRelation(p, TRUE)
    \/ \E p \in Procs : CreateRelationSave(p, TRUE)
    \/ \E p \in Procs, u \in Users, b \in BookingIds : ConfirmBooking(p, u, b)
    \/ \E p \in Procs, global_ok \in BOOLEAN : ConfirmProvision(p, FALSE, global_ok)
    \/ \E p \in Procs : ConfirmSave(p)
    \/ \E p \in Procs : ConfirmFinalize(p, TRUE)

SpecTutorDown == Init /\ [][NextTutorDown]_vars

\* create, confirm and cancel requests while the notification sink raises on
\* every call and the calendar deletes nothing
NextSinksDown ==
    \/ \E p \in Procs, u \in Students, T \in TutorIds, k \in SessionTypes,
          t \in OfferedTimes, d \in Durations : CreateBooking(p, u, T, k, t, d)
    \/ \E p \in Procs : CreateInsert(p)
    \/ \E p \in Procs : CreatePayment(p, TRUE, FALSE)
    \/ \E p \in Procs : CreateRelation(p, FALSE)
    \/ \E p \in Procs : CreateRelationSave(p, FALSE)
    \/ \E p \in Procs, u \in Users, b \in BookingIds : ConfirmBooking(p, u, b)
    \/ \E p \in Procs, tutor_ok \in BOOLEAN, global_ok \in BOOLEAN :
            ConfirmProvision(p, tutor_ok, global_ok)
    \/ \E p \in Procs : ConfirmSave(p)
    \/ \E p \in Procs : ConfirmFinalize(p, FALSE)
    \/ \E p \in Procs, u \in Users, b \in BookingIds : CancelBooking(p, u, b)
    \/ \E p \in Procs : CancelSave(p, FALSE, FALSE)

SpecSinksDown == Init /\ [][NextSinksDown]_vars

\* booking creation for tutors who take only some kinds of session
InitKinds ==
    /\ InitBookings
    /\ fees = NoFees
    /\ offers \in [TutorIds -> [SessionTypes -> BOOLEAN]]
    /\ NoAvailabilityRequests

SpecKinds == InitKinds /\ [][NextCreate]_vars

\* ------------------------------------------------- price and fee arithmetic
\* Money is exact: a stored amount is an integer number of hundredths
\* ("cents"), an unrounded one an integer number of 1/Scale of a hundredth.
Scale == 600

HourlyRates == {2500, 9999, 10000}      \* TutorProfile.hourly_rate, hundredths
GroupHourlyRates == {0, 6000}           \* TutorProfile.group_hourly_rate, 0 = unset
SessionMinutes == {30, 45, 50, 60, 90}  \* BookingCreate.duration_minutes
Currencies == {"INR", "USD"}
RatePercents == {0, 5, 10, 33, 100}     \* PlatformSettings rates in [0, 1], in percent
INR_TO_USD_RATE == 12                   \* 0.012, in thousandths

\* round(x, 2) of x = n / m hundredths: the nearest integer, either
\* neighbour when x lies exactly between two
Round2(n, m) ==
    LET q == n \div m
        r == n % m
    IN  IF 2 * r < m THEN {q}
        ELSE IF 2 * r > m THEN {q + 1}
        ELSE {q, q + 1}

FeeInputs ==
    [pc : {"price"},
     hourly_rate : HourlyRates,
     group_hourly_rate : GroupHourlyRates,
     session_type : SessionTypes,
     duration_minutes : SessionMinutes,
     currency : Currencies,
     commission_rate : RatePercents,
     student_platform_fee_rate : RatePercents]

InitFees ==
    /\ InitBookings
    /\ fees \in FeeInputs
    /\ offers = OffersAll
    /\ NoAvailabilityRequests

\* create_booking lines 76-90: the session price, in 1/Scale hundredths
PriceSession ==
    /\ fees.pc = "price"
    /\ LET hourly == IF fees.session_type = "group"
                     THEN IF fees.group_hourly_rate # 0
                          THEN 10 * fees.group_hourly_rate
                          ELSE 6 * fees.hourly_rate
                     ELSE 10 * fees.hourly_rate
           session_price_inr == hourly * fees.duration_minutes
       IN  \E usd \in Round2(session_price_inr * INR_TO_USD_RATE, Scale * 1000) :
             fees' = [pc |-> "fees",
                      currency |-> fees.currency,
                      commission_rate |-> fees.commission_rate,
                      student_platform_fee_rate |-> fees.student_platform_fee_rate,
                      session_amount |-> IF fees.currency = "USD"
                                         THEN usd * Scale
                                         ELSE session_price_inr]
    /\ UNCHANGED booking_vars
    /\ UNCHANGED <<offers, availability, sreq, blocked_dates, ledger_vars>>

\* PaymentService.calculate_fees
calculate_fees ==
    /\ fees.pc = "fees"
    /\ LET amount == fees.session_amount IN
       \E commission_fee \in Round2(amount * fees.commission_rate, Scale * 100),
          student_platform_fee \in Round2(amount * fees.student_platform_fee_rate,
                                          Scale * 100) :
         \E tutor_earnings \in Round2(amount - commission_fee * Scale, Scale),
            charge_amount \in Round2(amount + student_platform_fee * Scale, Scale) :
           fees' = [pc |-> "done",
                    currency |-> fees.currency,
                    session_amount |-> amount,
                    commission_fee |-> commission_fee,
                    student_platform_fee |-> student_platform_fee,
                    total_platform_fee |-> commission_fee + student_platform_fee,
                    tutor_earnings |-> tutor_earnings,
                    charge_amount |-> charge_amount]
    /\ UNCHANGED booking_vars
    /\ UNCHANGED <<offers, availability, sreq, blocked_dates, ledger_vars>>

NextFees == PriceSession \/ calculate_fees

SpecFees == InitFees /\ [][NextFees]_vars

\* ------------------------------------------------------------------ claims
\* BookingSlot.capacity: one seat for a private session, the tutor's
\* group_session_capacity for a group session
Capacity(T, k) == IF k = "private" THEN 1 ELSE group_session_capacity[T]

\* the bookings that hold a seat of the bucket (T, t, d, k)
Reserved(T, t, d, k) ==
    {i \in 1..Len(bookings) :
        /\ bookings[i].tutor_id = T
        /\ bookings[i].scheduled_at = t
        /\ bookings[i].duration_minutes = d
        /\ bookings[i].session_type = k
        /\ bookings[i].status # CANCELLED}

\* a create request that has inserted its booking and has not yet answered
Inserted(p) == req[p].op = "create" /\ req[p].bid # 0

SameBucket(a, b) ==
    /\ a.tutor_id = b.tutor_id
    /\ a.scheduled_at = b.scheduled_at
    /\ a.duration_minutes = b.duration_minutes
    /\ a.session_type = b.session_type

\* C1: two create requests in flight at the same time for one bucket never
\* both insert a booking when that takes the bucket over its capacity: of
\* two concurrent requests for the last seat at most one creates a booking.
C1_LastSeatRace ==
    \A p, q \in Procs :
        (p # q /\ Inserted(p) /\ Inserted(q) /\ SameBucket(req[p].bk, req[q].bk))
        => Cardinality(Reserved(req[p].bk.tutor_id, req[p].bk.scheduled_at,
                                req[p].bk.duration_minutes, req[p].bk.session_type))
             <= Capacity(req[p].bk.tutor_id, req[p].bk.session_type)

\* C2: while a non-cancelled private booking exists for (tutor, scheduledAt,
\* durationMinutes), create_booking answers every student's request for that
\* private slot with a rejection, so no booking is created.
C2_PrivateSlotTaken ==
    \A u \in Students, T \in TutorIds, t \in Times, d \in Durations :
        Reserved(T, t, d, "private") # {} => CreateRejection(u, T, "private", t, d) # "no"

\* C3: a group bucket never holds more non-cancelled bookings than the tutor's
\* group_session_capacity, and create_booking rejects a request for a full one.
C3_GroupCapacity ==
    \A T \in TutorIds, t \in Times, d \in Durations :
        /\ Cardinality(Reserved(T, t, d, "group")) <= group_session_capacity[T]
        /\ Cardinality(Reserved(T, t, d, "group")) >= group_session_capacity[T]
            => \A u \in Students : CreateRejection(u, T, "group", t, d) # "no"

\* C4: a student holds at most one non-cancelled booking for one
\* (tutor, sessionType, scheduledAt, durationMinutes).
C4_OneActiveBookingPerTuple ==
    \A u \in Students, T \in TutorIds, k \in SessionTypes, t \in Times, d \in Durations :
        Cardinality(ExistingBooking(u, T, k, t, d)) <= 1

\* the transitions of the booking state machine
LegalTransitions ==
    {<<PENDING, CONFIRMED>>, <<CONFIRMED, COMPLETED>>,
     <<PENDING, CANCELLED>>, <<CONFIRMED, CANCELLED>>}

\* C5: the stored status of a booking changes only along Pending->Confirmed,
\* Confirmed->Completed, Pending->Cancelled and Confirmed->Cancelled.
C5_LegalTransitionsOnly ==
    [][\A i \in 1..Len(bookings) :
            bookings'[i].status # bookings[i].status
            => <<bookings[i].status, bookings'[i].status>> \in LegalTransitions]_vars

\* C6: a step that changes the status of a booking is taken by a request of
\* the booking's student or of the tutor who owns it; it makes the booking
\* Confirmed only for that tutor and Cancelled only for one of the two.
C6_OnlyPartiesChangeStatus ==
    [][\A i \in 1..Len(bookings), p \in Procs :
            (bookings'[i].status # bookings[i].status /\ req'[p] # req[p])
            => LET u == req[p].user
                   isStudent == u = bookings[i].student_id
                   isTutor == ProfileOf(u) = bookings[i].tutor_id
               IN  /\ isStudent \/ isTutor
                   /\ bookings'[i].status = CONFIRMED => isTutor]_vars

\* C7: at most one ledger entry of a (student, tutor) pair is flagged
\* is_first_booking.
C7_OneFirstBooking ==
    \A u \in Students, T \in TutorIds :
        Cardinality({b \in BookingIds :
            /\ payments[b] # NoPayment
            /\ payments[b].student_id = u
            /\ payments[b].tutor_id = T
            /\ payments[b].is_first_booking}) <= 1

\* C8: once the create request of a booking has answered, the booking has
\* its ledger entry; a ledger entry never exists without its booking.
C8_BookingIffLedger ==
    \A b \in BookingIds :
        /\ (b <= Len(bookings) /\ \A p \in Procs : ~(Inserted(p) /\ req[p].bid = b))
            => payments[b] # NoPayment
        /\ payments[b] # NoPayment => b <= Len(bookings)

\* the confirmed group bookings of the slot (T, t, d)
ConfirmedGroup(T, t, d) ==
    {i \in Reserved(T, t, d, "group") : bookings[i].status = CONFIRMED}

\* the calendar events made for the group slot that starts at t
GroupArtifacts(t) ==
    {e \in 1..Len(artifacts) :
        artifacts[e].start_time = t /\ artifacts[e].session_type = "group"}

\* C9: when the tutor has confirmed, one after another, the group bookings
\* of N <= capacity students for one slot and each of them stores an event,
\* exactly one event was created for the slot, its attendees are the N
\* students, and the N bookings store the id and the link of that event.
C9_OneSharedGroupArtifact ==
    \A T \in TutorIds, t \in Times, d \in Durations :
        LET C == ConfirmedGroup(T, t, d) IN
        (/\ C # {}
         /\ Cardinality(C) <= group_session_capacity[T]
         /\ \A i, j \in C : bookings[i].student_id = bookings[j].student_id => i = j
         /\ \A p \in Procs : req[p].op # "confirm"
         /\ \A i \in C : bookings[i].google_event_id # 0)
        => /\ Cardinality(GroupArtifacts(t)) = 1
           /\ \A i \in C :
                /\ bookings[i].google_event_id \in GroupArtifacts(t)
                /\ bookings[i].meeting_link = bookings[i].google_event_id
                /\ artifacts[bookings[i].google_event_id].attendees
                     = {bookings[j].student_id : j \in C}

\* C10: of the confirm requests of one Pending booking, however they
\* interleave, at most one provisions a calendar event for it and at most
\* one finalizes its ledger entry and emits booking-confirmed (both happen
\* in the same step, so the confirmed notifications count the two).
C10_ConfirmSideEffectsOnce ==
    \A b \in BookingIds :
        /\ Cardinality({e \in 1..Len(artifacts) : artifacts[e].booking_id = b}) <= 1
        /\ notifications["confirmed"][b] <= 1

\* a confirm request of booking b has answered with success
ConfirmReturned(b) == notifications["confirmed"][b] > 0

\* C11: when the tutor's calendar fails during confirm, the request still
\* succeeds: once it has answered (and the create request of the booking
\* has answered too) the booking is Confirmed, its meeting_link is null and
\* its ledger entry is completed.
C11_ProviderFailureConfirms ==
    \A b \in 1..Len(bookings) :
        (ConfirmReturned(b) /\ \A p \in Procs : ~(Inserted(p) /\ req[p].bid = b))
        => /\ bookings[b].status = CONFIRMED
           /\ bookings[b].meeting_link = 0
           /\ payments[b] # NoPayment
           /\ payments[b].status = COMPLETED

\* C12: confirm on a Confirmed booking is answered AlreadyConfirmed and
\* cancel on a Cancelled booking AlreadyCancelled; no such request gets past
\* its checks, so it changes no booking, ledger entry or calendar event and
\* emits no notification.
C12_ReapplyRejected ==
    [][/\ \A u \in Users, b \in 1..Len(bookings) :
            /\ (bookings[b].status = CONFIRMED /\ ProfileOf(u) = bookings[b].tutor_id)
                => ConfirmRejection(u, b) = "AlreadyConfirmed"
            /\ (/\ bookings[b].status = CANCELLED
                /\ (u = bookings[b].student_id \/ ProfileOf(u) = bookings[b].tutor_id))
                => CancelRejection(u, b) = "AlreadyCancelled"
       /\ \A p \in Procs :
            /\ (Free(p) /\ req'[p].op = "confirm")
                => bookings[req'[p].bid].status # CONFIRMED
            /\ (Free(p) /\ req'[p].op = "cancel")
                => bookings[req'[p].bid].status # CANCELLED]_vars

\* a Confirmed and a Cancelled booking are stored and a worker is free to
\* take a confirm or cancel request for them
C12_Witness ==
    /\ \E b \in 1..Len(bookings) : bookings[b].status = CONFIRMED
    /\ \E b \in 1..Len(bookings) : bookings[b].status = CANCELLED
    /\ \E p \in Procs : Free(p)

\* C13: once a confirm request of a booking has answered with success (and
\* the request that created the booking has answered), the ledger entry of
\* the booking exists with status completed.
C13_LedgerCompletedAfterConfirm ==
    \A b \in 1..Len(bookings) :
        (ConfirmReturned(b) /\ \A p \in Procs : ~(Inserted(p) /\ req[p].bid = b))
        => /\ payments[b] # NoPayment
           /\ payments[b].status = COMPLETED

\* student u holds no seat of the bucket (T, t, d, k)
HoldsNone(u, T, t, d, k) ==
    \A i \in Reserved(T, t, d, k) : bookings[i].student_id # u

\* C14: when a Pending booking becomes Cancelled, a create request for the
\* identical (tutor, session type, start, duration) is accepted from then on,
\* from the student who cancelled and from any other student who holds no
\* booking of his own for that tuple.
C14_CancelReleasesSlot ==
    [][\A b \in 1..Len(bookings) :
            (bookings[b].status = PENDING /\ bookings'[b].status = CANCELLED)
            => \A u \in Students :
                 LET bk == bookings[b] IN
                 HoldsNone(u, bk.tutor_id, bk.scheduled_at,
                           bk.duration_minutes, bk.session_type)'
                 => CreateRejection(u, bk.tutor_id, bk.session_type,
                                    bk.scheduled_at, bk.duration_minutes)' = "no"]_vars

\* a booking was cancelled by cancel_booking before it was ever confirmed,
\* and its student has booked the identical tuple again
C14_Witness ==
    \E b, c \in 1..Len(bookings) :
        /\ b < c
        /\ bookings[b].status = CANCELLED
        /\ notifications["cancelled"][b] > 0
        /\ notifications["confirmed"][b] = 0
        /\ bookings[c].status = PENDING
        /\ bookings[c].student_id = bookings[b].student_id
        /\ SameBucket(bookings[b], bookings[c])

\* C15: every ledger entry has tutor_earnings + commission_fee =
\* session_amount, charge_amount = session_amount + student_platform_fee and
\* total_platform_fee = commission_fee + student_platform_fee, for every
\* price create_booking computes and all rates in [0, 1].
C15_FeeIdentities ==
    fees.pc = "done"
    => /\ (fees.tutor_earnings + fees.commission_fee) * Scale = fees.session_amount
       /\ fees.charge_amount * Scale
            = fees.session_amount + fees.student_platform_fee * Scale
       /\ fees.total_platform_fee = fees.commission_fee + fees.student_platform_fee

\* C16: a request that got past its checks always commits its change and
\* answers, also when the notification sink raises and the calendar event
\* cannot be deleted: the step that ends a create request leaves its booking
\* stored, confirm_booking stores Confirmed and nothing takes it back when
\* the request ends, and the step that ends a cancel request stores Cancelled.
C16_SinkFailureNeverBlocks ==
    [][\A p \in Procs :
          LET r == req[p] IN
          /\ (r.op = "create" /\ r.bid # 0 /\ Free(p)')
                => (r.bid <= Len(bookings') /\ bookings'[r.bid] = bookings[r.bid])
          /\ (r.pc = "cf_save" /\ req'[p] # r)
                => bookings'[r.bid].status = CONFIRMED
          /\ (r.op = "confirm" /\ Free(p)') => bookings' = bookings
          /\ (r.op = "cancel" /\ Free(p)')
                => bookings'[r.bid].status = CANCELLED]_vars

\* a booking was created, confirmed with a calendar event and cancelled
\* while no notification could be written and the event was not deleted
C16_Witness ==
    \E b \in 1..Len(bookings) :
        /\ bookings[b].status = CANCELLED
        /\ bookings[b].google_event_id # 0
        /\ ~artifacts[bookings[b].google_event_id].deleted
        /\ \A kind \in DOMAIN notifications : notifications[kind][b] = 0
        /\ \A p \in Procs : Free(p)

\* what create_booking is to validate before it creates anything
CreateInvalid(u, T, k) ==
    \/ T \notin TutorIds
    \/ ~offers[T][k]
    \/ Email(u) = ""

\* C17: a request whose tutor does not exist, whose tutor does not take the
\* requested kind of session or whose student has no email is rejected by
\* create_booking: no booking, ledger entry or relation comes from one.
C17_CreateValidates ==
    /\ \A b \in 1..Len(bookings) :
            ~CreateInvalid(bookings[b].student_id, bookings[b].tutor_id,
                           bookings[b].session_type)
    /\ \A b \in BookingIds :
            payments[b] # NoPayment
            => ~CreateInvalid(payments[b].student_id, payments[b].tutor_id,
                              bookings[b].session_type)
    /\ \A u \in Students, T \in TutorIds :
            relations[u, T] # <<>> => \E k \in SessionTypes : ~CreateInvalid(u, T, k)

\* ------------------------------------------------- weekly availability
\* routes/availability.py for one tutor.  The week is cut down to two days
\* and a submitted day holds at most MaxSlots slots.
MaxSlots == 2
MaxScheduleRequests == 3

DayOrder == <<"monday", "tuesday">>
Days == {DayOrder[i] : i \in 1..Len(DayOrder)}

\* _parse_minutes: "HH:MM" to minutes after midnight, -1 when the text
\* does not split into two integers (HTTP 400)
_parse_minutes(time_value) ==
    CASE time_value = "09:00" -> 540
      [] time_value = "09:30" -> 570
      [] time_value = "10:00" -> 600
      [] time_value = "10:30" -> 630
      [] OTHER -> -1

TimeSlot(s, e) == [start_time |-> s, end_time |-> e]

\* the slots a tutor submits: three proper ones, a slot of no length and one
\* whose start is not a time
Slots == {TimeSlot("09:00", "10:00"), TimeSlot("09:30", "10:30"),
          TimeSlot("10:00", "10:30"), TimeSlot("10:00", "10:00")}
BadTimeSlot == TimeSlot("9am", "10:00")

RECURSIVE SlotLists(_)
SlotLists(n) ==
    IF n = 0 THEN {<<>>}
    ELSE LET shorter == SlotLists(n - 1) IN
         shorter \cup {Append(l, s) : l \in {x \in shorter : Len(x) = n - 1},
                                      s \in Slots}

EmptyWeek == [d \in Days |-> <<>>]

\* WeeklyScheduleUpdate: the body of PUT /schedule
WeeklyScheduleUpdate ==
    {[d \in Days |-> IF d = "monday" THEN m ELSE t] :
        m \in SlotLists(MaxSlots),
        t \in {<<>>, <<TimeSlot("09:00", "10:00")>>, <<BadTimeSlot>>}}

\* a schedule field of the document: a dict of day lists, or nothing
Dict(week) == [set |-> TRUE, days |-> week]
Unset == [set |-> FALSE, days |-> EmptyWeek]

\* Python's "a or b" on two schedule fields
Or(a, b) == IF a.set THEN a ELSE b

\* TutorAvailability(tutor_id=...): the document get_or_create inserts
DefaultDocument ==
    [stored |-> TRUE,
     private_weekly_schedule |-> Unset,
     group_weekly_schedule |-> Unset,
     weekly_schedule |-> Dict(EmptyWeek),
     is_accepting_students |-> TRUE]

\* a document written before the schedules were split by session kind
LegacyDocument ==
    [DefaultDocument EXCEPT
        !.weekly_schedule =
            Dict([EmptyWeek EXCEPT !["monday"] = <<TimeSlot("09:00", "10:00")>>])]

\* get_or_create_availability: the object the handler works on
get_or_create_availability ==
    LET found == IF availability = NoDocument THEN DefaultDocument
                 ELSE availability
    IN  IF ~found.private_weekly_schedule.set /\ found.weekly_schedule.set
        THEN [found EXCEPT !.private_weekly_schedule = found.weekly_schedule]
        ELSE found

\* the collection after get_or_create_availability: a missing document is
\* inserted as the default one, without the backfill
AfterGetOrCreate ==
    IF availability = NoDocument THEN DefaultDocument ELSE availability

StartOf(slot) == _parse_minutes(slot.start_time)
EndOf(slot) == _parse_minutes(slot.end_time)

\* normalized.sort(key=lambda x: x[0]): a stable sort by start
RECURSIVE SortByStart(_)
SortByStart(slots) ==
    IF slots = <<>> THEN <<>>
    ELSE LET rest == SortByStart(SubSeq(slots, 1, Len(slots) - 1))
             last == slots[Len(slots)]
             k == Cardinality({i \in 1..Len(rest) : StartOf(rest[i]) <= StartOf(last)})
         IN  SubSeq(rest, 1, k) \o <<last>> \o SubSeq(rest, k + 1, Len(rest))

\* the loop body of _validate_internal_no_overlap without the test
\* "end <= start"
InternalDayError_NoEndCheck(slots) ==
    LET unparsed == {i \in 1..Len(slots) :
                        StartOf(slots[i]) = -1 \/ EndOf(slots[i]) = -1}
        normalized == SortByStart(slots)
    IN  IF unparsed # {} THEN "invalid_time"
        ELSE IF \E i \in 2..Len(normalized) :
                    StartOf(normalized[i]) < EndOf(normalized[i - 1])
             THEN "internal_overlap"
             ELSE "ok"

\* the loop body of _validate_internal_no_overlap for one day: the detail of
\* the HTTP 400 it raises, "ok" when it raises none
InternalDayError(slots) ==
    LET raising == {i \in 1..Len(slots) :
                       \/ StartOf(slots[i]) = -1
                       \/ EndOf(slots[i]) = -1
                       \/ EndOf(slots[i]) <= StartOf(slots[i])}
        first == CHOOSE i \in raising : \A j \in raising : i <= j
        normalized == SortByStart(slots)
    IN  IF raising # {}
        THEN IF StartOf(slots[first]) = -1 \/ EndOf(slots[first]) = -1
             THEN "invalid_time"
             ELSE "invalid_slot"
        ELSE IF \E i \in 2..Len(normalized) :
                    StartOf(normalized[i]) < EndOf(normalized[i - 1])
             THEN "internal_overlap"
             ELSE "ok"

_validate_internal_no_overlap(schedule_dict) ==
    LET raising == {i \in 1..Len(DayOrder) :
                       InternalDayError(schedule_dict[DayOrder[i]]) # "ok"}
        first == CHOOSE i \in raising : \A j \in raising : i <= j
    IN  IF raising = {} THEN "ok"
        ELSE InternalDayError(schedule_dict[DayOrder[first]])

\* _validate_cross_schedule_no_overlap; both schedules hold slots that
\* passed the internal validation
_validate_cross_schedule_no_overlap(source_schedule, other_schedule) ==
    IF \E day \in Days :
          \E i \in 1..Len(source_schedule[day]), j \in 1..Len(other_schedule[day]) :
              /\ StartOf(source_schedule[day][i]) < EndOf(other_schedule[day][j])
              /\ StartOf(other_schedule[day][j]) < EndOf(source_schedule[day][i])
    THEN "cross_overlap"
    ELSE "ok"

\* update_weekly_schedule up to the await of save(): load, validate, assign.
\* A rejected request answers 400 and has written nothing but the default
\* document get_or_create_availability inserts when none is stored.
update_weekly_schedule(p, session_type, schedule_dict) ==
    /\ sreq[p].pc = "idle"
    /\ nreq < MaxScheduleRequests
    /\ nreq' = nreq + 1
    /\ LET loaded == get_or_create_availability
           internal == _validate_internal_no_overlap(schedule_dict)
           other_schedule ==
               IF session_type = "group"
               THEN Or(loaded.private_weekly_schedule, loaded.weekly_schedule)
               ELSE loaded.group_weekly_schedule
           cross == _validate_cross_schedule_no_overlap(schedule_dict,
                                                        other_schedule.days)
           assigned ==
               IF session_type = "group"
               THEN [loaded EXCEPT !.group_weekly_schedule = Dict(schedule_dict)]
               ELSE [loaded EXCEPT !.private_weekly_schedule = Dict(schedule_dict),
                                   !.weekly_schedule = Dict(schedule_dict)]
       IN  sreq' = [sreq EXCEPT ![p] =
                       IF internal # "ok" THEN SIdle(internal)
                       ELSE IF cross # "ok" THEN SIdle(cross)
                       ELSE [pc |-> "save", op |-> session_type,
                             availability |-> assigned]]
    /\ availability' = AfterGetOrCreate
    /\ UNCHANGED <<bookings, payments, relations, artifacts, notifications,
                   group_session_capacity, req, fees, offers, blocked_dates,
                   ledger_vars>>

\* update_availability_settings up to the await of save()
update_availability_settings(p, settings) ==
    /\ sreq[p].pc = "idle"
    /\ nreq < MaxScheduleRequests
    /\ nreq' = nreq + 1
    /\ LET loaded == get_or_create_availability IN
       sreq' = [sreq EXCEPT ![p] =
                   [pc |-> "save", op |-> "settings",
                    availability |->
                        IF settings = <<>> THEN loaded
                        ELSE [loaded EXCEPT !.is_accepting_students = settings[1]]]]
    /\ availability' = AfterGetOrCreate
    /\ UNCHANGED <<bookings, payments, relations, artifacts, notifications,
                   group_session_capacity, req, fees, offers, blocked_dates,
                   ledger_vars>>

\* a save() that would write only the field the handler assigned
AvailabilitySave_ChangedFieldOnly(p) ==
    /\ sreq[p].pc = "save"
    /\ availability' =
          IF sreq[p].op = "group"
          THEN [availability EXCEPT !.group_weekly_schedule =
                                        sreq[p].availability.group_weekly_schedule]
          ELSE IF sreq[p].op = "private"
          THEN [availability EXCEPT !.private_weekly_schedule =
                                        sreq[p].availability.private_weekly_schedule,
                                    !.weekly_schedule =
                                        sreq[p].availability.weekly_schedule]
          ELSE [availability EXCEPT !.is_accepting_students =
                                        sreq[p].availability.is_accepting_students]
    /\ sreq' = [sreq EXCEPT ![p] = SIdle("ok")]
    /\ UNCHANGED <<booking_vars, fees, offers, blocked_dates, ledger_vars>>

\* availability.save(): the whole object replaces the stored document
AvailabilitySave(p) ==
    /\ sreq[p].pc = "save"
    /\ availability' = sreq[p].availability
    /\ sreq' = [sreq EXCEPT ![p] = SIdle("ok")]
    /\ UNCHANGED <<booking_vars, fees, offers, blocked_dates, ledger_vars>>

\* the body of PUT /settings: is_accepting_students given or left out
AvailabilitySettingsUpdate == {<<>>, <<TRUE>>, <<FALSE>>}

InitSchedules ==
    /\ bookings = <<>>
    /\ payments = [b \in BookingIds |-> NoPayment]
    /\ relations = [u \in Students, T \in TutorIds |-> <<>>]
    /\ artifacts = <<>>
    /\ notifications = [kind \in {"created", "confirmed", "cancelled"} |->
                            [b \in BookingIds |-> 0]]
    /\ group_session_capacity = [T \in TutorIds |-> 1]
    /\ req = [p \in Procs |-> Idle]
    /\ nreq = 0
    /\ fees = NoFees
    /\ offers = OffersAll
    /\ availability \in {NoDocument, LegacyDocument}
    /\ sreq = [p \in Procs |-> SIdle("none")]
    /\ blocked_dates = <<>>
    /\ withdrawals = <<>>
    /\ wreq = [p \in Procs |-> WIdle]
    /\ reply = NoReply

NextSchedules ==
    \/ \E p \in Procs, k \in SessionTypes, s \in WeeklyScheduleUpdate :
          update_weekly_schedule(p, k, s)
    \/ \E p \in Procs, s \in AvailabilitySettingsUpdate :
          update_availability_settings(p, s)
    \/ \E p \in Procs : AvailabilitySave(p)

SpecSchedules == InitSchedules /\ [][NextSchedules]_vars

\* _get_schedule_by_session_type on the stored document: the day lists the
\* routes read for a session kind
_get_schedule_by_session_type(doc, session_type) ==
    IF doc = NoDocument THEN EmptyWeek
    ELSE IF session_type = "group" THEN doc.group_weekly_schedule.days
    ELSE Or(doc.private_weekly_schedule, doc.weekly_schedule).days

\* a submitted schedule with, on some day, a slot that ends at or before its
\* start or two slots that overlap
InternalConflict(schedule_dict) ==
    \E day \in Days :
        LET slots == schedule_dict[day] IN
        \/ \E i \in 1..Len(slots) :
              StartOf(slots[i]) # -1 /\ EndOf(slots[i]) # -1
              /\ EndOf(slots[i]) <= StartOf(slots[i])
        \/ \E i, j \in 1..Len(slots) :
              /\ i # j
              /\ StartOf(slots[i]) # -1 /\ EndOf(slots[i]) # -1
              /\ StartOf(slots[j]) # -1 /\ EndOf(slots[j]) # -1
              /\ StartOf(slots[i]) < EndOf(slots[j])
              /\ StartOf(slots[j]) < EndOf(slots[i])

\* the schedule a worker is about to save for the kind it updates
Submitted(p) ==
    IF sreq[p].op = "group"
    THEN sreq[p].availability.group_weekly_schedule.days
    ELSE sreq[p].availability.private_weekly_schedule.days

\* C18: update_weekly_schedule rejects every submitted schedule that has, on
\* some day, a slot with end <= start or two overlapping slots: no such
\* schedule reaches save() or the stored document, and the step that takes a
\* request in leaves the schedules of both kinds as stored.
C18_InvalidScheduleRejected ==
    /\ [](\A p \in Procs :
              (sreq[p].pc = "save" /\ sreq[p].op \in SessionTypes)
              => ~InternalConflict(Submitted(p)))
    /\ [](\A k \in SessionTypes :
              ~InternalConflict(_get_schedule_by_session_type(availability, k)))
    /\ [][nreq' # nreq
          => \A k \in SessionTypes :
                 _get_schedule_by_session_type(availability', k)
                 = _get_schedule_by_session_type(availability, k)]_vars

\* a request was rejected for a slot or an overlap of its own while a
\* private and a group schedule were stored
C18_Witness ==
    /\ \E p \in Procs :
          sreq[p].pc = "idle" /\ sreq[p].status \in {"invalid_slot", "internal_overlap"}
    /\ \A k \in SessionTypes :
          _get_schedule_by_session_type(availability, k) # EmptyWeek

\* some slot of one day list overlaps some slot of the other
SlotsOverlap(slots, others) ==
    \E i \in 1..Len(slots), j \in 1..Len(others) :
        /\ StartOf(slots[i]) < EndOf(others[j])
        /\ StartOf(others[j]) < EndOf(slots[i])

CrossOverlap(private, group) ==
    \E day \in Days : SlotsOverlap(private[day], group[day])

\* C19: in the stored availability of a tutor no private slot overlaps a
\* group slot of the same day, whatever private, group and settings updates
\* ran and however their load and save steps interleaved.
C19_NoCrossOverlap ==
    ~CrossOverlap(_get_schedule_by_session_type(availability, "private"),
                  _get_schedule_by_session_type(availability, "group"))

\* a private and a group update are both about to save, each validated
\* against the document it loaded, and the two submitted schedules overlap
C19_Witness ==
    \E p, q \in Procs :
        /\ sreq[p].pc = "save" /\ sreq[p].op = "private"
        /\ sreq[q].pc = "save" /\ sreq[q].op = "group"
        /\ CrossOverlap(Submitted(p), Submitted(q))

OtherKind(session_type) == IF session_type = "group" THEN "private" ELSE "group"

\* C20: the save of a weekly-schedule update stores the submitted week for
\* every day of its session kind and leaves the schedule of the other kind
\* as it was stored, and a request that fails validation on some day changes
\* no day of either kind.
C20_AtomicWeekReplace ==
    [][\A p \in Procs :
          /\ (sreq[p].pc = "save" /\ sreq[p].op \in SessionTypes
              /\ sreq'[p].pc = "idle")
             => /\ _get_schedule_by_session_type(availability', sreq[p].op)
                   = Submitted(p)
                /\ _get_schedule_by_session_type(availability', OtherKind(sreq[p].op))
                   = _get_schedule_by_session_type(availability, OtherKind(sreq[p].op))
          /\ (sreq[p].pc = "idle" /\ sreq'[p].pc = "idle" /\ nreq' # nreq)
             => \A k \in SessionTypes :
                    _get_schedule_by_session_type(availability', k)
                    = _get_schedule_by_session_type(availability, k)]_vars

\* the ledger entries created for a (student, tutor) pair
LedgerEntries(u, T) ==
    {b \in BookingIds :
        /\ payments[b] # NoPayment
        /\ payments[b].student_id = u
        /\ payments[b].tutor_id = T}

\* a create_booking request for the pair has not answered yet
CreateInFlight(u, T) ==
    \E p \in Procs :
        /\ req[p].op = "create"
        /\ req[p].bk.student_id = u
        /\ req[p].bk.tutor_id = T

\* C26: once the create_booking requests for a (student, tutor) pair have
\* answered, the pair has no relation row when it has no ledger entry, and
\* otherwise exactly one row whose total_bookings is the number of ledger
\* entries created for the pair.
C26_OneRelationCountingLedger ==
    \A u \in Students, T \in TutorIds :
        ~CreateInFlight(u, T)
        => IF LedgerEntries(u, T) = {}
           THEN relations[u, T] = <<>>
           ELSE /\ Len(relations[u, T]) = 1
                /\ relations[u, T][1] = Cardinality(LedgerEntries(u, T))

\* ------------------------------------------------ a group slot being left
\* Two students hold Pending bookings of the same group slot, each with its
\* ledger entry and relation; nreq counts the requests taken in from here.
InitGroupSlot ==
    /\ bookings = [b \in 1..2 |->
                      [student_id |-> IF b = 1 THEN "s1" ELSE "s2",
                       tutor_id |-> "T1", session_type |-> "group",
                       scheduled_at |-> 1, duration_minutes |-> 60,
                       status |-> PENDING,
                       google_event_id |-> 0, meeting_link |-> 0]]
    /\ payments = [b \in BookingIds |->
                      IF b <= 2
                      THEN [student_id |-> IF b = 1 THEN "s1" ELSE "s2",
                            tutor_id |-> "T1", is_first_booking |-> TRUE,
                            status |-> PENDING]
                      ELSE NoPayment]
    /\ relations = [u \in Students, T \in TutorIds |-> <<1>>]
    /\ artifacts = <<>>
    /\ notifications = [kind \in {"created", "confirmed", "cancelled"} |->
                            [b \in BookingIds |->
                                IF kind = "created" /\ b <= 2 THEN 1 ELSE 0]]
    /\ group_session_capacity = [T \in TutorIds |-> MaxCapacity]
    /\ req = [p \in Procs |-> Idle]
    /\ nreq = 0
    /\ fees = NoFees
    /\ offers = OffersAll
    /\ NoAvailabilityRequests

\* the tutor confirms, students and tutor cancel; the calendars answer or fail
NextGroupCancel ==
    \/ \E p \in Procs, u \in Users, b \in BookingIds : ConfirmBooking(p, u, b)
    \/ \E p \in Procs, tutor_ok \in BOOLEAN, global_ok \in BOOLEAN :
          ConfirmProvision(p, tutor_ok, global_ok)
    \/ \E p \in Procs : ConfirmSave(p)
    \/ \E p \in Procs : ConfirmFinalize(p, TRUE)
    \/ \E p \in Procs, u \in Users, b \in BookingIds : CancelBooking(p, u, b)
    \/ \E p \in Procs, deleted \in BOOLEAN : CancelSave(p, deleted, TRUE)

SpecGroupCancel == InitGroupSlot /\ [][NextGroupCancel]_vars

\* C27: the event a Confirmed booking refers to is not deleted while no
\* cancellation of that booking itself has been carried out, so a deleted
\* event under such a booking was deleted by the cancel of another booking.
C27_SharedArtifactSurvivesCancel ==
    \A b \in 1..Len(bookings) :
        (/\ bookings[b].status = CONFIRMED
         /\ bookings[b].google_event_id # 0
         /\ notifications["cancelled"][b] = 0)
        => ~artifacts[bookings[b].google_event_id].deleted

\* the tutor confirms only bookings that are Pending when the request loads
\* them; cancellations interleave with the confirmations
NextLateConfirm ==
    \/ \E p \in Procs, u \in Users, b \in BookingIds :
          /\ b <= Len(bookings)
          /\ bookings[b].status = PENDING
          /\ ConfirmBooking(p, u, b)
    \/ \E p \in Procs, tutor_ok \in BOOLEAN, global_ok \in BOOLEAN :
          ConfirmProvision(p, tutor_ok, global_ok)
    \/ \E p \in Procs : ConfirmSave(p)
    \/ \E p \in Procs : ConfirmFinalize(p, TRUE)
    \/ \E p \in Procs, u \in Users, b \in BookingIds : CancelBooking(p, u, b)
    \/ \E p \in Procs, deleted \in BOOLEAN : CancelSave(p, deleted, TRUE)

SpecLateConfirm == InitGroupSlot /\ [][NextLateConfirm]_vars

\* a cancel request of the booking has answered with success
CancelReturned(b) == notifications["cancelled"][b] > 0

\* C28: once a cancel request of a booking has answered with success, the
\* stored status of the booking is never Confirmed, also when a confirm
\* request that loaded the booking while it was Pending saves afterwards.
C28_CancelledIsFinal ==
    \A b \in 1..Len(bookings) :
        CancelReturned(b) => bookings[b].status # CONFIRMED

\* ------------------------------------------- blocked dates and calendars
\* One month of NumDays days; at most MaxBlocks blocked dates are ever added.
NumDays == 3
MaxBlocks == 2

Dates == 1..NumDays

\* day_names[date_obj.weekday()]
WeekdayOf(date) == DayOrder[((date - 1) % Len(DayOrder)) + 1]

\* datetime.strptime(text, "%Y-%m-%d"): the day of the month, 0 for a
\* ValueError; a day without leading zero is accepted
DateTexts == {"2026-11-01", "2026-11-02", "2026-11-2", "2026-11-03", "02/11/2026"}

strptime(text) ==
    CASE text = "2026-11-01" -> 1
      [] text = "2026-11-02" -> 2
      [] text = "2026-11-2" -> 2
      [] text = "2026-11-03" -> 3
      [] OTHER -> 0

\* date.strftime("%Y-%m-%d")
strftime(date) ==
    CASE date = 1 -> "2026-11-01"
      [] date = 2 -> "2026-11-02"
      [] date = 3 -> "2026-11-03"
      [] OTHER -> "2026-11-04"

\* BlockedDate.find(tutor_id, date): the rows of the tutor for a date
BlockedRows(date) ==
    {i \in 1..Len(blocked_dates) :
        ~blocked_dates[i].deleted /\ blocked_dates[i].date = date}

\* the rows of the month as the calendars key them
blocked_dict ==
    {strftime(blocked_dates[i].date) :
        i \in {j \in 1..Len(blocked_dates) : ~blocked_dates[j].deleted}}

\* add_blocked_date up to the await of insert(): parse the date, look for a
\* row of the tutor on that date
add_blocked_date(p, text) ==
    /\ sreq[p].pc = "idle"
    /\ Len(blocked_dates)
         + Cardinality({q \in Procs : sreq[q].pc = "insert_block"}) < MaxBlocks
    /\ sreq' = [sreq EXCEPT ![p] =
                   IF strptime(text) = 0 THEN SIdle("invalid_date")
                   ELSE IF BlockedRows(strptime(text)) # {}
                        THEN SIdle("already_blocked")
                   ELSE [pc |-> "insert_block", date |-> strptime(text)]]
    /\ UNCHANGED <<booking_vars, fees, offers, availability, blocked_dates,
                   ledger_vars>>

\* new_blocked.insert()
BlockedDateInsert(p) ==
    /\ sreq[p].pc = "insert_block"
    /\ blocked_dates' = Append(blocked_dates,
                               [date |-> sreq[p].date, deleted |-> FALSE])
    /\ sreq' = [sreq EXCEPT ![p] = SIdle("ok")]
    /\ UNCHANGED <<booking_vars, fees, offers, availability, ledger_vars>>

\* remove_blocked_date: the row with this id is deleted; a request for a
\* row that does not exist answers 404 and changes nothing
remove_blocked_date(p, date_id) ==
    /\ sreq[p].pc = "idle"
    /\ IF date_id \in 1..Len(blocked_dates) /\ ~blocked_dates[date_id].deleted
       THEN /\ blocked_dates' = [blocked_dates EXCEPT ![date_id].deleted = TRUE]
            /\ sreq' = [sreq EXCEPT ![p] = SIdle("ok")]
       ELSE UNCHANGED <<blocked_dates, sreq>>
    /\ UNCHANGED <<booking_vars, fees, offers, availability, ledger_vars>>

\* CalendarDayStatus of the tutor's own calendar
OwnDay(doc, session_type, date) ==
    LET is_blocked == strftime(date) \in blocked_dict
        day_slots == _get_schedule_by_session_type(doc, session_type)[WeekdayOf(date)]
        slots_count == Len(day_slots)
        is_available == slots_count > 0 /\ ~is_blocked
    IN  [is_available |-> is_available,
         is_blocked |-> is_blocked,
         slots_count |-> slots_count,
         time_slots |-> IF is_available THEN day_slots ELSE <<>>]

\* the days of get_month_calendar
get_month_calendar(session_type) ==
    [date \in Dates |-> OwnDay(get_or_create_availability, session_type, date)]

\* a public calendar day that ignores is_accepting_students
PublicDay_IgnoringAccepting(session_type, today, date) ==
    LET is_blocked == strftime(date) \in blocked_dict \/ date < today
        day_slots == _get_schedule_by_session_type(availability,
                                                   session_type)[WeekdayOf(date)]
        slots_count == Len(day_slots)
        is_available == slots_count > 0 /\ ~is_blocked
    IN  [is_available |-> is_available,
         is_blocked |-> is_blocked,
         slots_count |-> IF is_available THEN slots_count ELSE 0,
         time_slots |-> IF is_available THEN day_slots ELSE <<>>]

\* CalendarDayStatus of the public calendar
PublicDay(session_type, today, date) ==
    LET is_blocked == strftime(date) \in blocked_dict \/ date < today
        day_slots == _get_schedule_by_session_type(availability,
                                                   session_type)[WeekdayOf(date)]
        slots_count == Len(day_slots)
        is_available == /\ slots_count > 0
                        /\ ~is_blocked
                        /\ availability.is_accepting_students
    IN  [is_available |-> is_available,
         is_blocked |-> is_blocked,
         slots_count |-> IF is_available THEN slots_count ELSE 0,
         time_slots |-> IF is_available THEN day_slots ELSE <<>>]

\* the days of get_tutor_public_calendar: none when the tutor does not take
\* the session kind or has no availability document
get_tutor_public_calendar(session_type, today) ==
    IF ~offers["T1"][session_type] \/ availability = NoDocument
    THEN [date \in {} |-> 0]
    ELSE [date \in Dates |-> PublicDay(session_type, today, date)]

\* GET /calendar/{year}/{month}
GetMonthCalendar(session_type) ==
    /\ reply' = [route |-> "calendar", session_type |-> session_type,
                 days |-> get_month_calendar(session_type)]
    /\ availability' = AfterGetOrCreate
    /\ UNCHANGED <<booking_vars, fees, offers, sreq, blocked_dates,
                   withdrawals, wreq>>

\* GET /public/{tutor_id}/calendar/{year}/{month}, read on the day today
GetPublicCalendar(session_type, today) ==
    /\ reply' = [route |-> "public_calendar", session_type |-> session_type,
                 today |-> today,
                 days |-> get_tutor_public_calendar(session_type, today)]
    /\ UNCHANGED <<booking_vars, fees, offers, availability, sreq,
                   blocked_dates, withdrawals, wreq>>

\* the documents the schedule and settings routes leave for the tutor
CalendarDocuments ==
    {NoDocument, LegacyDocument}
    \cup {[DefaultDocument EXCEPT
              !.private_weekly_schedule = Dict(private),
              !.weekly_schedule = Dict(private),
              !.group_weekly_schedule = Dict(group),
              !.is_accepting_students = accepting] :
            private \in {EmptyWeek,
                         [EmptyWeek EXCEPT !["monday"] = <<TimeSlot("09:00", "10:00")>>]},
            group \in {EmptyWeek,
                       [EmptyWeek EXCEPT !["tuesday"] = <<TimeSlot("09:00", "10:00")>>]},
            accepting \in BOOLEAN}

\* no booking, ledger entry or booking request
NoBookings ==
    /\ bookings = <<>>
    /\ payments = [b \in BookingIds |-> NoPayment]
    /\ relations = [u \in Students, T \in TutorIds |-> <<>>]
    /\ artifacts = <<>>
    /\ notifications = [kind \in {"created", "confirmed", "cancelled"} |->
                            [b \in BookingIds |-> 0]]
    /\ group_session_capacity = [T \in TutorIds |-> 1]
    /\ req = [p \in Procs |-> Idle]
    /\ nreq = 0

InitCalendar ==
    /\ NoBookings
    /\ fees = NoFees
    /\ offers \in [TutorIds -> [SessionTypes -> BOOLEAN]]
    /\ availability \in CalendarDocuments
    /\ sreq = [p \in Procs |-> SIdle("none")]
    /\ blocked_dates = <<>>
    /\ withdrawals = <<>>
    /\ wreq = [p \in Procs |-> WIdle]
    /\ reply = NoReply

NextCalendar ==
    \/ \E p \in Procs, text \in DateTexts : add_blocked_date(p, text)
    \/ \E p \in Procs : BlockedDateInsert(p)
    \/ \E p \in Procs, date_id \in 1..MaxBlocks : remove_blocked_date(p, date_id)
    \/ \E k \in SessionTypes : GetMonthCalendar(k)
    \/ \E k \in SessionTypes, today \in Dates : GetPublicCalendar(k, today)

SpecCalendar == InitCalendar /\ [][NextCalendar]_vars

\* the public calendar reports the date as available
ReportedAvailable(session_type, today, date) ==
    LET days == get_tutor_public_calendar(session_type, today) IN
    date \in DOMAIN days /\ days[date].is_available

\* the conditions of availability: a slot on the weekday in the weekly map of
\* the kind, no BlockedDate row, not before today, accepting students
ResolvedAvailable(session_type, today, date) ==
    /\ availability # NoDocument
    /\ _get_schedule_by_session_type(availability, session_type)[WeekdayOf(date)] # <<>>
    /\ BlockedRows(date) = {}
    /\ ~(date < today)
    /\ availability.is_accepting_students

\* a listed day that is not available shows no slot and no slot count
UnavailableExposesNothing(session_type, today) ==
    LET days == get_tutor_public_calendar(session_type, today) IN
    \A date \in DOMAIN days :
        ~days[date].is_available
        => days[date].time_slots = <<>> /\ days[date].slots_count = 0

\* the last answer is the public calendar of the kind, read today, and the
\* state is as it was read
PublicCalendarRead(session_type, today) ==
    /\ reply.route = "public_calendar"
    /\ reply.session_type = session_type
    /\ reply.today = today
    /\ reply.days = get_tutor_public_calendar(session_type, today)

C25_UniqueBlockedDate ==
    \A date \in Dates : Cardinality(BlockedRows(date)) <= 1

\* the weekly map of the kind has a slot on the weekday of the date
TemplateAvailable(doc, session_type, date) ==
    _get_schedule_by_session_type(doc, session_type)[WeekdayOf(date)] # <<>>

\* a date with a BlockedDate row is unavailable, with no slots, in the tutor's
\* own calendar and in the public calendar, for both session kinds
BlockedDateUnavailable ==
    \A date \in Dates, k \in SessionTypes :
        BlockedRows(date) # {}
        => /\ ~get_month_calendar(k)[date].is_available
           /\ get_month_calendar(k)[date].time_slots = <<>>
           /\ \A today \in Dates :
                 LET days == get_tutor_public_calendar(k, today) IN
                 date \in DOMAIN days
                 => ~days[date].is_available /\ days[date].time_slots = <<>>

\* the date is available in the tutor's own calendar exactly when the weekly
\* map has a slot on its weekday
FollowsTemplate(session_type, date) ==
    get_month_calendar(session_type)[date].is_available
    <=> TemplateAvailable(get_or_create_availability, session_type, date)

\* remove_blocked_date has deleted a row of the date
BlockDeleted(date) ==
    \E i \in BlockedRows(date) : blocked_dates'[i].deleted

\* C22: while a BlockedDate row exists for a date, the date is unavailable
\* with no slots in the tutor's own and the public calendar for both kinds;
\* once remove_blocked_date has deleted the block, the date is available
\* exactly when the weekly template has a slot on its weekday.
C22_BlockExcludesDate ==
    /\ []BlockedDateUnavailable
    /\ [][\A date \in Dates, k \in SessionTypes :
              BlockDeleted(date) => FollowsTemplate(k, date)']_vars

\* ------------------------------------------------- ledger and withdrawals
MaxWithdrawals == 2   \* documents the withdrawals collection may hold

\* PaymentStatus
FAILED == "failed"
REFUNDED == "refunded"
PaymentStatuses == {PENDING, COMPLETED, FAILED, REFUNDED}

\* WithdrawalStatus
APPROVED == "approved"
REJECTED == "rejected"
WithdrawalStatuses == {PENDING, APPROVED, REJECTED, COMPLETED}

\* PlatformSettings.minimum_withdrawal_amount, 10.0, in hundredths
minimum_withdrawal_amount == 1000

\* WithdrawalRequest.amount, in hundredths
WithdrawalAmounts == {0, 500, 1000, 2500}

\* the amounts create_payment stores in the ledger entry of booking b, in
\* hundredths: sessions of 10.00, 20.00, 40.00, ... with a commission of 5 %
\* and a student platform fee of 10 %; the entry keeps them for its lifetime
LedgerAmounts(b) ==
    LET session_amount == 1000 * 2 ^ (b - 1)
        commission_fee == (session_amount * 5) \div 100
        student_platform_fee == (session_amount * 10) \div 100
    IN  [session_amount |-> session_amount,
         commission_fee |-> commission_fee,
         admission_fee |-> student_platform_fee,
         total_platform_fee |-> commission_fee + student_platform_fee,
         tutor_earnings |-> session_amount - commission_fee]

\* Payment.find(Payment.status == status) on a ledger
PaymentsWithStatus(ledger, status) ==
    {b \in BookingIds : ledger[b] # NoPayment /\ ledger[b].status = status}

\* sum(p.<field> for p in payments)
RECURSIVE SumField(_, _)
SumField(entries, field) ==
    IF entries = {} THEN 0
    ELSE LET b == CHOOSE x \in entries : TRUE IN
         LedgerAmounts(b)[field] + SumField(entries \ {b}, field)

\* revenue statistics that count every ledger entry
get_revenue_stats_AnyStatus(ledger) ==
    LET all_payments == {b \in BookingIds : ledger[b] # NoPayment} IN
    [total_revenue |-> SumField(all_payments, "total_platform_fee"),
     total_admission_fees |-> SumField(all_payments, "admission_fee"),
     total_commission_fees |-> SumField(all_payments, "commission_fee"),
     total_tutor_payouts |-> SumField(all_payments, "tutor_earnings"),
     total_payments |-> Cardinality(all_payments),
     total_new_students |->
         Cardinality({b \in all_payments : ledger[b].is_first_booking})]

\* PaymentService.get_revenue_stats: the all-time totals
get_revenue_stats(ledger) ==
    LET all_payments == PaymentsWithStatus(ledger, COMPLETED) IN
    [total_revenue |-> SumField(all_payments, "total_platform_fee"),
     total_admission_fees |-> SumField(all_payments, "admission_fee"),
     total_commission_fees |-> SumField(all_payments, "commission_fee"),
     total_tutor_payouts |-> SumField(all_payments, "tutor_earnings"),
     total_payments |-> Cardinality(all_payments),
     total_new_students |->
         Cardinality({b \in all_payments : ledger[b].is_first_booking})]

\* PaymentService.get_tutor_earnings, first query: the completed entries
CompletedEarnings(ledger) ==
    LET payments_ == PaymentsWithStatus(ledger, COMPLETED) IN
    [total_sessions |-> Cardinality(payments_),
     total_earnings |-> SumField(payments_, "tutor_earnings"),
     platform_fees_paid |-> SumField(payments_, "total_platform_fee")]

\* PaymentService.get_tutor_earnings, second query: the pending entries
pending_earnings(ledger) ==
    SumField(PaymentsWithStatus(ledger, PENDING), "tutor_earnings")

\* what get_tutor_earnings answers when the ledger does not change under it
get_tutor_earnings(ledger) ==
    [total_sessions |-> CompletedEarnings(ledger).total_sessions,
     total_earnings |-> CompletedEarnings(ledger).total_earnings,
     platform_fees_paid |-> CompletedEarnings(ledger).platform_fees_paid,
     pending_earnings |-> pending_earnings(ledger)]

\* the state the ledger and withdrawal routes leave alone
outside_ledger == <<bookings, relations, artifacts, notifications,
                    group_session_capacity, req, nreq, fees, offers,
                    availability, sreq, blocked_dates>>

\* verify_razorpay_payment: the entry of the booking becomes completed when
\* the signature is valid and failed when it is not, whatever it was
VerifyPayment(b, is_valid) ==
    /\ payments[b] # NoPayment
    /\ payments' = [payments EXCEPT
                       ![b].status = IF is_valid THEN COMPLETED ELSE FAILED]
    /\ UNCHANGED <<outside_ledger, ledger_vars>>

\* GET revenue statistics
GetRevenueStats ==
    /\ reply' = [route |-> "revenue", stats |-> get_revenue_stats(payments)]
    /\ UNCHANGED <<outside_ledger, payments, withdrawals, wreq>>

\* get_tutor_earnings up to the second query
GetTutorEarnings(p) ==
    /\ wreq[p] = WIdle
    /\ wreq' = [wreq EXCEPT ![p] =
                   [pc |-> "e_pending", completed |-> CompletedEarnings(payments)]]
    /\ UNCHANGED <<outside_ledger, payments, withdrawals, reply>>

\* get_tutor_earnings from the second query to the answer
TutorEarningsReply(p) ==
    /\ wreq[p].pc = "e_pending"
    /\ reply' = [route |-> "earnings",
                 stats |-> [total_sessions |-> wreq[p].completed.total_sessions,
                            total_earnings |-> wreq[p].completed.total_earnings,
                            platform_fees_paid |->
                                wreq[p].completed.platform_fees_paid,
                            pending_earnings |-> pending_earnings(payments)]]
    /\ wreq' = [wreq EXCEPT ![p] = WIdle]
    /\ UNCHANGED <<outside_ledger, payments, withdrawals>>

\* a ledger entry of student s1 with tutor T1
LedgerEntry(status, first) ==
    [student_id |-> "s1", tutor_id |-> "T1", is_first_booking |-> first,
     status |-> status]

\* the ledgers create_payment, complete_payment and the payment provider
\* leave: the first entry of the pair is the first booking; PaymentStatus
\* declares refunded although no route of the repository writes it
Ledgers ==
    {ledger \in [BookingIds -> {NoPayment}
                                \cup {LedgerEntry(status, first) :
                                        status \in PaymentStatuses,
                                        first \in BOOLEAN}] :
        \A b \in BookingIds :
            ledger[b] # NoPayment
            => ledger[b].is_first_booking
               = (\A c \in 1..(b - 1) : ledger[c] = NoPayment)}

\* student s1 holds Pending bookings with tutor T1; each has its ledger entry
\* unless create_payment failed, and the payment provider has verified some
InitLedger ==
    /\ bookings = [b \in BookingIds |->
                      [student_id |-> "s1", tutor_id |-> "T1",
                       session_type |-> "private", scheduled_at |-> b,
                       duration_minutes |-> 60, status |-> PENDING,
                       google_event_id |-> 0, meeting_link |-> 0]]
    /\ payments \in Ledgers
    /\ relations = [u \in Students, T \in TutorIds |->
                       LET entries == {b \in BookingIds : payments[b] # NoPayment}
                       IN  IF u = "s1" /\ entries # {}
                           THEN <<Cardinality(entries)>> ELSE <<>>]
    /\ artifacts = <<>>
    /\ notifications = [kind \in {"created", "confirmed", "cancelled"} |->
                            [b \in BookingIds |-> IF kind = "created" THEN 1 ELSE 0]]
    /\ group_session_capacity = [T \in TutorIds |-> 1]
    /\ req = [p \in Procs |-> Idle]
    /\ nreq = 0
    /\ fees = NoFees
    /\ offers = OffersAll
    /\ NoAvailabilityRequests

NextLedger ==
    \/ \E b \in BookingIds, is_valid \in BOOLEAN : VerifyPayment(b, is_valid)
    \/ GetRevenueStats
    \/ \E p \in Procs : GetTutorEarnings(p)
    \/ \E p \in Procs : TutorEarningsReply(p)

SpecLedger == InitLedger /\ [][NextLedger]_vars


\* the ledger without the entry of booking b
Without(ledger, b) == [ledger EXCEPT ![b] = NoPayment]

\* the last answer is the revenue statistics of the ledger as it is
RevenueRead ==
    reply.route = "revenue" /\ reply.stats = get_revenue_stats(payments)

\* the last answer is the tutor's earnings of the ledger as it is
EarningsRead ==
    reply.route = "earnings" /\ reply.stats = get_tutor_earnings(payments)

\* what the entry of booking b adds to a total when it counts
Share(b, counts, field) == IF counts THEN LedgerAmounts(b)[field] ELSE 0

\* C23: the revenue statistics and a tutor's earned totals are sums over the
\* completed ledger entries: an entry that is pending, failed or refunded adds
\* nothing to any total of get_revenue_stats or to the earned totals, a
\* completed entry adds its amounts, and a pending entry adds its
\* tutor_earnings to pending_earnings only.
C23_CompletedOnly ==
    \A b \in BookingIds :
        payments[b] # NoPayment
        => LET done == payments[b].status = COMPLETED
               rest == Without(payments, b)
           IN  /\ RevenueRead
                  => LET r == get_revenue_stats(rest) IN
                     /\ reply.stats.total_revenue
                          = r.total_revenue + Share(b, done, "total_platform_fee")
                     /\ reply.stats.total_admission_fees
                          = r.total_admission_fees + Share(b, done, "admission_fee")
                     /\ reply.stats.total_commission_fees
                          = r.total_commission_fees + Share(b, done, "commission_fee")
                     /\ reply.stats.total_tutor_payouts
                          = r.total_tutor_payouts + Share(b, done, "tutor_earnings")
                     /\ reply.stats.total_payments
                          = r.total_payments + (IF done THEN 1 ELSE 0)
                     /\ ~done => reply.stats.total_new_students = r.total_new_students
               /\ EarningsRead
                  => LET e == get_tutor_earnings(rest) IN
                     /\ reply.stats.total_earnings
                          = e.total_earnings + Share(b, done, "tutor_earnings")
                     /\ reply.stats.platform_fees_paid
                          = e.platform_fees_paid + Share(b, done, "total_platform_fee")
                     /\ reply.stats.total_sessions
                          = e.total_sessions + (IF done THEN 1 ELSE 0)
                     /\ reply.stats.pending_earnings
                          = e.pending_earnings
                            + Share(b, payments[b].status = PENDING, "tutor_earnings")

\* the revenue statistics were read from a ledger that holds a completed
\* entry, a pending entry and a failed or refunded entry
C23_Witness ==
    /\ RevenueRead
    /\ reply.stats.total_revenue > 0
    /\ PaymentsWithStatus(payments, COMPLETED) # {}
    /\ PaymentsWithStatus(payments, PENDING) # {}
    /\ PaymentsWithStatus(payments, FAILED)
         \cup PaymentsWithStatus(payments, REFUNDED) # {}


\* sum(w.amount for w in withdrawals if w.status in statuses)
RECURSIVE SumAmounts(_, _)
SumAmounts(rows, statuses) ==
    IF rows = <<>> THEN 0
    ELSE (IF Head(rows).status \in statuses THEN Head(rows).amount ELSE 0)
         + SumAmounts(Tail(rows), statuses)

\* sum(p.tutor_earnings for p in payments) over the tutor's completed entries
total_earnings(ledger) ==
    SumField(PaymentsWithStatus(ledger, COMPLETED), "tutor_earnings")

pending_withdrawals(rows) == SumAmounts(rows, {PENDING, APPROVED})

withdrawn_amount(rows) == SumAmounts(rows, {COMPLETED})

\* total_earnings - pending_withdrawals - withdrawn_amount
available_balance(earnings, rows) ==
    earnings - pending_withdrawals(rows) - withdrawn_amount(rows)

\* statistics that report the balance without max(0, ...)
TutorStats_NoFloor(earnings, rows) ==
    [total_earnings |-> earnings,
     available_balance |-> available_balance(earnings, rows),
     pending_withdrawals |-> pending_withdrawals(rows),
     withdrawn_amount |-> withdrawn_amount(rows)]

\* the TutorStats get_tutor_stats answers from the earnings it has read and
\* the withdrawals it reads next
TutorStats(earnings, rows) ==
    [total_earnings |-> earnings,
     available_balance |-> IF available_balance(earnings, rows) > 0
                           THEN available_balance(earnings, rows) ELSE 0,
     pending_withdrawals |-> pending_withdrawals(rows),
     withdrawn_amount |-> withdrawn_amount(rows)]

\* get_tutor_stats up to the query of the withdrawals
GetTutorStats(p) ==
    /\ wreq[p] = WIdle
    /\ wreq' = [wreq EXCEPT ![p] =
                   [pc |-> "s_withdrawals",
                    total_earnings |-> total_earnings(payments)]]
    /\ UNCHANGED <<outside_ledger, payments, withdrawals, reply>>

\* get_tutor_stats from the query of the withdrawals to the answer
TutorStatsReply(p) ==
    /\ wreq[p].pc = "s_withdrawals"
    /\ reply' = [route |-> "stats",
                 stats |-> TutorStats(wreq[p].total_earnings, withdrawals)]
    /\ wreq' = [wreq EXCEPT ![p] = WIdle]
    /\ UNCHANGED <<outside_ledger, payments, withdrawals>>

\* the withdrawal requests being served
WithdrawalsInFlight ==
    {q \in Procs : wreq[q].pc \in {"w_withdrawals", "w_insert"}}

\* request_withdrawal up to the query of the withdrawals: the tutor's
\* completed payments are read and summed
request_withdrawal(p, amount) ==
    /\ wreq[p] = WIdle
    /\ Len(withdrawals) + Cardinality(WithdrawalsInFlight) < MaxWithdrawals
    /\ wreq' = [wreq EXCEPT ![p] =
                   [pc |-> "w_withdrawals", amount |-> amount,
                    total_earnings |-> total_earnings(payments)]]
    /\ UNCHANGED <<outside_ledger, payments, withdrawals, reply>>

\* lines 216-229: the error request_withdrawal answers with
WithdrawalRejection(amount, balance) ==
    IF amount <= 0 THEN "NotPositive"
    ELSE IF amount < minimum_withdrawal_amount THEN "BelowMinimum"
    ELSE IF amount > balance THEN "InsufficientBalance"
    ELSE "no"

\* request_withdrawal from the query of the withdrawals to the insert: the
\* balance is computed and the amount validated against it
WithdrawalValidate(p) ==
    /\ wreq[p].pc = "w_withdrawals"
    /\ LET rejection == WithdrawalRejection(
                            wreq[p].amount,
                            available_balance(wreq[p].total_earnings, withdrawals))
       IN  IF rejection # "no"
           THEN /\ wreq' = [wreq EXCEPT ![p] = WIdle]
                /\ reply' = [route |-> "withdrawal", status |-> rejection,
                             amount |-> wreq[p].amount]
           ELSE /\ wreq' = [wreq EXCEPT ![p] =
                               [pc |-> "w_insert", amount |-> wreq[p].amount]]
                /\ UNCHANGED reply
    /\ UNCHANGED <<outside_ledger, payments, withdrawals>>

\* withdrawal.insert()
WithdrawalInsert(p) ==
    /\ wreq[p].pc = "w_insert"
    /\ withdrawals' = Append(withdrawals,
                             [amount |-> wreq[p].amount, status |-> PENDING])
    /\ wreq' = [wreq EXCEPT ![p] = WIdle]
    /\ reply' = [route |-> "withdrawal", status |-> "ok",
                 amount |-> wreq[p].amount]
    /\ UNCHANGED <<outside_ledger, payments>>

\* update_withdrawal: the admin sets the status of a withdrawal
update_withdrawal(withdrawal_id, status) ==
    /\ withdrawal_id \in 1..Len(withdrawals)
    /\ withdrawals' = [withdrawals EXCEPT ![withdrawal_id].status = status]
    /\ UNCHANGED <<outside_ledger, payments, wreq, reply>>

NextWithdraw ==
    \/ \E p \in Procs, amount \in WithdrawalAmounts : request_withdrawal(p, amount)
    \/ \E p \in Procs : WithdrawalValidate(p)
    \/ \E p \in Procs : WithdrawalInsert(p)
    \/ \E withdrawal_id \in 1..MaxWithdrawals, status \in WithdrawalStatuses :
          update_withdrawal(withdrawal_id, status)
    \/ \E p \in Procs : GetTutorStats(p)
    \/ \E p \in Procs : TutorStatsReply(p)

SpecWithdraw == InitLedger /\ [][NextWithdraw]_vars


\* C30: the tutor's withdrawals in state pending, approved or completed never
\* add up to more than the tutor's completed earnings, also when two
\* request_withdrawal calls interleave their balance computation and insert.
C30_NeverOverWithdrawn ==
    SumAmounts(withdrawals, {PENDING, APPROVED, COMPLETED})
      <= total_earnings(payments)


\* the last answer is the tutor's statistics of the ledger and the
\* withdrawals as they are
StatsRead ==
    /\ reply.route = "stats"
    /\ reply.stats = TutorStats(total_earnings(payments), withdrawals)

\* the withdrawals that are not rejected
NotRejected(rows) == SelectSeq(rows, LAMBDA w : w.status # REJECTED)

\* C24: the available balance get_tutor_stats reports is the completed
\* earnings minus the withdrawals that are pending, approved or completed,
\* and 0 when that is negative; pending_withdrawals counts the pending and
\* approved ones; a rejected withdrawal changes no figure.
C24_AvailableBalance ==
    StatsRead
    => LET raw == total_earnings(payments)
                    - SumAmounts(withdrawals, WithdrawalStatuses \ {REJECTED})
       IN  /\ reply.stats.available_balance = IF raw >= 0 THEN raw ELSE 0
           /\ reply.stats.pending_withdrawals + reply.stats.withdrawn_amount
                = SumAmounts(withdrawals, WithdrawalStatuses \ {REJECTED})
           /\ reply.stats.withdrawn_amount = SumAmounts(withdrawals, {COMPLETED})
           /\ reply.stats = TutorStats(total_earnings(payments),
                                       NotRejected(withdrawals))

\* the statistics were read with a rejected and an approved withdrawal and
\* money left to withdraw
C24_Witness ==
    /\ StatsRead
    /\ \E i, j \in 1..Len(withdrawals) :
          withdrawals[i].status = REJECTED /\ withdrawals[j].status = APPROVED
    /\ reply.stats.available_balance > 0
    /\ reply.stats.available_balance < reply.stats.total_earnings

\* the statistics were read when the withdrawals exceed the earnings
FlooredBalanceRead ==
    /\ StatsRead
    /\ available_balance(total_earnings(payments), withdrawals) < 0


\* worker p takes in a cancel_booking request or finishes one
CancelStep(p) ==
    /\ req'[p] # req[p]
    /\ req[p].pc = "ca_save" \/ req'[p].pc = "ca_save"

\* the booking a cancel step of worker p is about
CancelledBy(p) == IF req[p].pc = "ca_save" THEN req[p].bid ELSE req'[p].bid

\* C29: cancel_booking leaves the ledger entry of the booking as it is: when
\* the entry is completed it stays completed while the booking becomes
\* Cancelled, and the revenue statistics, the tutor's earned total and the
\* tutor's withdrawable balance include its amounts as before.
C29_CancelKeepsLedger ==
    [][\A p \in Procs, b \in BookingIds :
          (CancelStep(p) /\ b = CancelledBy(p))
          => /\ payments' = payments
             /\ get_revenue_stats(payments') = get_revenue_stats(payments)
             /\ get_tutor_earnings(payments') = get_tutor_earnings(payments)
             /\ TutorStats(total_earnings(payments'), withdrawals')
                  = TutorStats(total_earnings(payments), withdrawals)
             /\ (payments[b] # NoPayment /\ payments[b].status = COMPLETED)
                => /\ get_revenue_stats(payments').total_revenue
                        = get_revenue_stats(Without(payments', b)).total_revenue
                          + LedgerAmounts(b).total_platform_fee
                   /\ total_earnings(payments')
                        = total_earnings(Without(payments', b))
                          + LedgerAmounts(b).tutor_earnings
                   /\ TutorStats(total_earnings(payments'),
                                 withdrawals').available_balance
                        >= LedgerAmounts(b).tutor_earnings]_vars

\* a Confirmed booking with a completed ledger entry was cancelled: the
\* booking is Cancelled, the entry is still completed and counts as revenue
C29_Witness ==
    \E b \in 1..Len(bookings) :
        /\ bookings[b].status = CANCELLED
        /\ CancelReturned(b)
        /\ payments[b] # NoPayment
        /\ payments[b].status = COMPLETED
        /\ get_revenue_stats(payments).total_revenue
             >= LedgerAmounts(b).total_platform_fee
        /\ total_earnings(payments) >= LedgerAmounts(b).tutor_earnings

====
